---- MODULE Spec2Model ----
(***************************************************************************)
(* Batch accumulation and dispatch scheduler of the SVG -> TGS bot         *)
(* (src/batch_processor.py, class BatchProcessor).                         *)
(*                                                                         *)
(* The program is a single asyncio event loop: every coroutine runs        *)
(* atomically from one suspension point (an await that really yields) to   *)
(* the next.  Each action below is one such atomic stretch.                *)
(*                                                                         *)
(* add_file_to_batch calls may overlap each other (a call suspended in     *)
(* send_message does not keep the next upload out), and all of them        *)
(* interleave with the single worker, the debounce timers and cleanups.    *)
(*                                                                         *)
(* Uploads are numbered 1, 2, ... in arrival order; the number stands for  *)
(* the FileData object and for its message_id.  A BatchJob object is named *)
(* by the number of the upload that created it, so two batches of the same *)
(* submitter are different objects even though batch_jobs keys them by     *)
(* user_id only.                                                           *)
(*                                                                         *)
(* Spec is the program in which every exception is caught where the code   *)
(* wraps the call that raises it; FairSpec adds the event loop's           *)
(* scheduling; FaultSpec adds an exception of the driver itself, which     *)
(* reaches the outer except clause of _process_batch; EvictSpec applies    *)
(* _cleanup_batch to arbitrary dictionaries of retained batches; AdmitSpec *)
(* puts one handle_svg_document call (src/user_handlers.py) in front of    *)
(* the processor; LoopSpec follows one submitter's batch through the loop  *)
(* body and keeps what was done for each file; TransportSpec keeps which   *)
(* of the worker's status edits and notifications failed; StopSpec adds a  *)
(* caller of stop_processing.                                              *)
(***************************************************************************)
EXTENDS Integers, Sequences, FiniteSets, TLC

\* ---------------------------------------------------------------- bounds
\* number of submitters
NumUsers == 2
\* number of uploads that reach add_file_to_batch in one run
MaxFiles == 4
\* config.max_batch_size, scaled down (src/config.py:30 sets 15)
max_batch_size == 2
\* the number of files between two progress updates that the documentation
\* describes, scaled down with max_batch_size (documented as 10)
ProgressEvery == 2

\* config.max_file_size in bytes, scaled down (src/config.py:28 sets 5 MiB)
max_file_size == 2

Users == 1..NumUsers
Files == 1..MaxFiles

VARIABLES
    batch_jobs,        \* user_id -> BatchJob object (0: no entry)
    heap,              \* the BatchJob objects, by object name
    processing_queue,  \* asyncio.Queue of dispatch signals
    tasks,             \* pending asyncio.sleep tasks, in the order they were armed
    handlers,          \* add_file_to_batch calls suspended in bot.send_message
    procs,             \* _process_batch activations that have not returned
    nextFile,          \* number of the next upload
    nextTicket,        \* history: enqueue sequence number of the next signal
    attempts,          \* history: how often the worker validated each file
    returned,          \* history: what add_file_to_batch returned for each file
    owner,             \* history: the user_id each upload was made with
    lastDeq,           \* history: the signal the worker dequeued last
    cleanup_log,       \* history: _cleanup_batch calls that ran after their sleep
    admission,         \* history: what the last handle_svg_document call decided
    file_log,          \* history: the collaborator calls made for each file
    transport,         \* history: the Telegram calls of each batch's pass that failed
    worker             \* is_processing and where the loop of start_processing stands

vars == <<batch_jobs, heap, processing_queue, tasks, handlers, procs,
          nextFile, nextTicket, attempts, returned, owner, lastDeq, cleanup_log,
          admission, file_log, transport, worker>>

\* -------------------------------------------------------------- uploads
\* A file name is a sequence of characters.  str.lower() maps every upper
\* case letter to its lower case letter and leaves the other characters.
LowerChar(c) ==
    CASE c = "A" -> "a" [] c = "S" -> "s" [] c = "V" -> "v" [] c = "G" -> "g"
      [] OTHER -> c

Lower(name) == [k \in 1..Len(name) |-> LowerChar(name[k])]

\* str.endswith
EndsWith(name, suffix) ==
    /\ Len(name) >= Len(suffix)
    /\ SubSeq(name, Len(name) - Len(suffix) + 1, Len(name)) = suffix

FileNames ==
    { <<"a", ".", "s", "v", "g">>, <<"A", ".", "S", "v", "G">>,
      <<"a", ".", "p", "n", "g">>, <<"s", "v", "g">>,
      <<"a", ".", "s", "v", "g", ".", "g">> }

\* the update a handle_svg_document call is made for: is_user_banned's
\* answer, whether message.document is set, document.file_name and
\* document.file_size
NoUpload == [banned |-> FALSE, document |-> FALSE, file_name |-> <<>>, file_size |-> 0]

Uploads ==
    [banned : BOOLEAN, document : {TRUE}, file_name : FileNames,
     file_size : (max_file_size - 1)..(max_file_size + 1)]
    \cup [banned : BOOLEAN, document : {FALSE}, file_name : {<<>>}, file_size : {0}]

\* what the loop body has done for one file of a batch: the verdict of
\* validate_file, the number of validate_and_convert calls and how the last
\* one ended, the send_document calls that returned, the _send_error_message
\* calls, and the success flags passed to log_conversion
NoEffects ==
    [verdict |-> "none", converted |-> 0, converter |-> "none", delivered |-> 0,
     notices |-> 0, records |-> <<>>]

\* ------------------------------------------------------------- BatchJob
NoJob ==
    [user_id |-> 0, files |-> <<>>, status_message_id |-> [kind |-> "none", id |-> 0],
     completed |-> FALSE, expired |-> FALSE, passes |-> 0, cleanups |-> 0,
     log |-> <<>>]

\* BatchJob(user_id, files=[file_obj], status_message_id=message_id, ...)
\* expired, passes, cleanups and log are history fields: the object's own
\* debounce timer has fired; number of times the worker started the per-file
\* pass on it; number of retention cleanups its completion scheduled; the
\* edits of its status message made by _process_batch calls that have
\* returned.
BatchJob(u, f) ==
    [user_id |-> u, files |-> <<f>>, status_message_id |-> [kind |-> "upload", id |-> f],
     completed |-> FALSE, expired |-> FALSE, passes |-> 0, cleanups |-> 0,
     log |-> <<>>]

\* a dispatch signal: the queue item is user_id; ticket (enqueue number), inst
\* (the BatchJob object on whose behalf it was put) and src are history
DispatchSignal(u, b, src) ==
    [user_id |-> u, ticket |-> nextTicket, inst |-> b, src |-> src]

\* the worker task inside its while loop: is_processing is True; stopped,
\* mark (the number of signals dequeued before the first stop_processing call)
\* and job (the batch that was being processed then, 0 if none) are history
Looping ==
    [is_processing |-> TRUE, exited |-> FALSE, stopped |-> FALSE, mark |-> 0, job |-> 0]

Init ==
    /\ batch_jobs = [u \in Users |-> 0]
    /\ heap = [b \in Files |-> NoJob]
    /\ processing_queue = <<>>
    /\ tasks = <<>>
    /\ handlers = {}
    /\ procs = {}
    /\ nextFile = 1
    /\ nextTicket = 1
    /\ attempts = [f \in Files |-> 0]
    /\ returned = [f \in Files |-> "none"]
    /\ owner = [f \in Files |-> 0]
    /\ lastDeq = [ticket |-> 0, user_id |-> 0, src |-> "none", inst |-> 0,
                  result |-> "none"]
    /\ cleanup_log = [fired |-> 0, absent |-> 0, errors |-> 0]
    /\ admission = [user_id |-> 0, upload |-> NoUpload, result |-> "none"]
    /\ file_log = [f \in Files |-> NoEffects]
    /\ transport = [b \in Files |-> {}]
    /\ worker = Looping

RemoveAt(s, i) == SubSeq(s, 1, i - 1) \o SubSeq(s, i + 1, Len(s))

\* Submitters are interchangeable: they are numbered in the order of their
\* first upload, so user u + 1 uploads only once user u has.
Arrives(u) ==
    /\ nextFile <= MaxFiles
    /\ u = 1 \/ \E f \in Files : owner[f] = u - 1

\* ---------------------------------------------------- add_file_to_batch
\* mutant of HasRoom: the bound compared with <= instead of <
HasRoom_inclusive(n) == n <= max_batch_size

\* len(batch_job.files) < self.config.max_batch_size
HasRoom(n) == n < max_batch_size

\* mutant of add_file_to_batch_create: the new BatchJob is put in batch_jobs
\* only after send_message has returned
add_file_to_batch_create_stores_late(u) ==
    /\ Arrives(u)
    /\ batch_jobs[u] = 0
    /\ LET f == nextFile IN
        /\ heap' = [heap EXCEPT ![f] = BatchJob(u, f)]
        /\ handlers' = handlers \cup {[user_id |-> u, file |-> f, job |-> f]}
        /\ returned' = [returned EXCEPT ![f] = "pending"]
        /\ owner' = [owner EXCEPT ![f] = u]
        /\ nextFile' = f + 1
    /\ UNCHANGED <<worker, transport, file_log, cleanup_log, batch_jobs, processing_queue, tasks, procs, nextTicket,
                   attempts, lastDeq>>

\* user_id not in batch_jobs: the BatchJob is created and stored, then the
\* call suspends in bot.send_message (timer not armed yet).
add_file_to_batch_create(u) ==
    /\ Arrives(u)
    /\ batch_jobs[u] = 0
    /\ LET f == nextFile IN
        /\ heap' = [heap EXCEPT ![f] = BatchJob(u, f)]
        /\ batch_jobs' = [batch_jobs EXCEPT ![u] = f]
        /\ handlers' = handlers \cup {[user_id |-> u, file |-> f, job |-> f]}
        /\ returned' = [returned EXCEPT ![f] = "pending"]
        /\ owner' = [owner EXCEPT ![f] = u]
        /\ nextFile' = f + 1
    /\ UNCHANGED <<worker, transport, file_log, cleanup_log, processing_queue, tasks, procs, nextTicket, attempts, lastDeq>>

\* mutant of add_file_to_batch_sent: a send_message that raises is caught by
\* the outer except clause only: no timer, the call returns False
add_file_to_batch_sent_unguarded(h, sent) ==
    /\ h \in handlers
    /\ heap' = IF sent
               THEN [heap EXCEPT ![h.job].status_message_id = [kind |-> "status", id |-> h.file]]
               ELSE heap
    /\ tasks' = IF sent
                THEN Append(tasks, [kind |-> "timer", user_id |-> h.user_id, inst |-> h.job])
                ELSE tasks
    /\ handlers' = handlers \ {h}
    /\ returned' = [returned EXCEPT ![h.file] = IF sent THEN "true" ELSE "false"]
    /\ UNCHANGED <<worker, transport, admission, file_log, cleanup_log, batch_jobs, processing_queue, procs, nextFile, nextTicket, attempts,
                   owner, lastDeq>>

\* send_message returned (sent = TRUE: status_message_id is replaced) or raised
\* (logged); then create_task(_schedule_batch_processing(user_id)); return True.
add_file_to_batch_sent(h, sent) ==
    /\ h \in handlers
    /\ heap' = IF sent
               THEN [heap EXCEPT ![h.job].status_message_id = [kind |-> "status", id |-> h.file]]
               ELSE heap
    /\ tasks' = Append(tasks, [kind |-> "timer", user_id |-> h.user_id, inst |-> h.job])
    /\ handlers' = handlers \ {h}
    /\ returned' = [returned EXCEPT ![h.file] = "true"]
    /\ UNCHANGED <<worker, transport, admission, file_log, cleanup_log, batch_jobs, processing_queue, procs, nextFile, nextTicket, attempts,
                   owner, lastDeq>>

\* mutant of add_file_to_batch_append: every appended file arms a timer
add_file_to_batch_append_rearms(u) ==
    /\ Arrives(u)
    /\ batch_jobs[u] # 0
    /\ HasRoom(Len(heap[batch_jobs[u]].files))
    /\ LET f == nextFile IN
        /\ heap' = [heap EXCEPT ![batch_jobs[u]].files = Append(@, f)]
        /\ returned' = [returned EXCEPT ![f] = "true"]
        /\ owner' = [owner EXCEPT ![f] = u]
        /\ nextFile' = f + 1
    /\ tasks' = Append(tasks, [kind |-> "timer", user_id |-> u, inst |-> batch_jobs[u]])
    /\ UNCHANGED <<worker, transport, file_log, cleanup_log, batch_jobs, processing_queue, handlers, procs, nextTicket,
                   attempts, lastDeq>>

\* mutant of add_file_to_batch_append: an append reopens the batch
add_file_to_batch_append_reopens(u) ==
    /\ Arrives(u)
    /\ batch_jobs[u] # 0
    /\ HasRoom(Len(heap[batch_jobs[u]].files))
    /\ LET f == nextFile IN
        /\ heap' = [heap EXCEPT ![batch_jobs[u]].files = Append(@, f),
                                ![batch_jobs[u]].completed = FALSE]
        /\ returned' = [returned EXCEPT ![f] = "true"]
        /\ owner' = [owner EXCEPT ![f] = u]
        /\ nextFile' = f + 1
    /\ UNCHANGED <<worker, transport, file_log, cleanup_log, batch_jobs, processing_queue, tasks, handlers, procs, nextTicket,
                   attempts, lastDeq>>

\* mutant of add_file_to_batch_append: the appended file's message becomes
\* the status message
add_file_to_batch_append_rehandles(u) ==
    /\ Arrives(u)
    /\ batch_jobs[u] # 0
    /\ HasRoom(Len(heap[batch_jobs[u]].files))
    /\ LET f == nextFile IN
        /\ heap' = [heap EXCEPT ![batch_jobs[u]].files = Append(@, f),
                                ![batch_jobs[u]].status_message_id = [kind |-> "upload", id |-> f]]
        /\ returned' = [returned EXCEPT ![f] = "true"]
        /\ owner' = [owner EXCEPT ![f] = u]
        /\ nextFile' = f + 1
    /\ UNCHANGED <<worker, transport, file_log, cleanup_log, batch_jobs, processing_queue, tasks, handlers, procs, nextTicket,
                   attempts, lastDeq>>

\* user_id in batch_jobs and the batch has room: append.  The edit of the
\* status message that follows changes no state of the processor whether it
\* succeeds or raises; the call then returns True.
add_file_to_batch_append(u) ==
    /\ Arrives(u)
    /\ batch_jobs[u] # 0
    /\ HasRoom(Len(heap[batch_jobs[u]].files))
    /\ LET f == nextFile IN
        /\ heap' = [heap EXCEPT ![batch_jobs[u]].files = Append(@, f)]
        /\ returned' = [returned EXCEPT ![f] = "true"]
        /\ owner' = [owner EXCEPT ![f] = u]
        /\ nextFile' = f + 1
    /\ UNCHANGED <<worker, transport, file_log, cleanup_log, batch_jobs, processing_queue, tasks, handlers, procs, nextTicket,
                   attempts, lastDeq>>

\* mutant of add_file_to_batch_full: returns False without the put
add_file_to_batch_full_no_put(u) ==
    /\ Arrives(u)
    /\ batch_jobs[u] # 0
    /\ Len(heap[batch_jobs[u]].files) >= max_batch_size
    /\ returned' = [returned EXCEPT ![nextFile] = "false"]
    /\ owner' = [owner EXCEPT ![nextFile] = u]
    /\ nextFile' = nextFile + 1
    /\ UNCHANGED <<worker, transport, file_log, cleanup_log, batch_jobs, heap, processing_queue, tasks, handlers, procs, nextTicket,
                   attempts, lastDeq>>

\* user_id in batch_jobs and the batch is full: put user_id on the queue and
\* return False; the file is stored nowhere.
add_file_to_batch_full(u) ==
    /\ Arrives(u)
    /\ batch_jobs[u] # 0
    /\ ~HasRoom(Len(heap[batch_jobs[u]].files))
    /\ processing_queue' = Append(processing_queue, DispatchSignal(u, batch_jobs[u], "full"))
    /\ nextTicket' = nextTicket + 1
    /\ returned' = [returned EXCEPT ![nextFile] = "false"]
    /\ owner' = [owner EXCEPT ![nextFile] = u]
    /\ nextFile' = nextFile + 1
    /\ UNCHANGED <<worker, transport, file_log, cleanup_log, batch_jobs, heap, tasks, handlers, procs, attempts, lastDeq>>

\* the calls made for uploads that passed the checks of handle_svg_document
add_file_to_batch ==
    \/ \E u \in Users : add_file_to_batch_create(u) /\ UNCHANGED admission
    \/ \E h \in handlers, sent \in BOOLEAN : add_file_to_batch_sent(h, sent)
    \/ \E u \in Users : add_file_to_batch_append(u) /\ UNCHANGED admission
    \/ \E u \in Users : add_file_to_batch_full(u) /\ UNCHANGED admission

\* ---------------------------------------------------- handle_svg_document
DotSvg == <<".", "s", "v", "g">>

\* mutant of Admission: a file of exactly max_file_size bytes is too large
Admission_size_inclusive(up) ==
    IF up.banned THEN "banned"
    ELSE IF ~up.document THEN "no_document"
    ELSE IF ~EndsWith(Lower(up.file_name), DotSvg) THEN "wrong_extension"
    ELSE IF up.file_size >= max_file_size THEN "too_large"
    ELSE "admitted"

\* the checks of handle_svg_document in the order the code makes them; each
\* failed check replies to the user and returns
Admission(up) ==
    IF up.banned THEN "banned"
    ELSE IF ~up.document THEN "no_document"
    ELSE IF ~EndsWith(Lower(up.file_name), DotSvg) THEN "wrong_extension"
    ELSE IF up.file_size > max_file_size THEN "too_large"
    ELSE "admitted"

\* everything but the history of handle_svg_document
processor == <<batch_jobs, heap, processing_queue, tasks, handlers, procs, nextFile,
               nextTicket, attempts, returned, owner, lastDeq, cleanup_log, file_log,
               transport, worker>>

\* mutant of handle_svg_document: the file is handed to add_file_to_batch
\* before its size is looked at
handle_svg_document_checks_size_late(u, up, dl) ==
    LET r == Admission(up)
        result == IF r = "admitted" /\ ~dl THEN "download_failed" ELSE r
    IN  /\ admission' = [user_id |-> u, upload |-> up, result |-> result]
        /\ IF result \in {"admitted", "too_large"}
           THEN \/ add_file_to_batch_create(u)
                \/ add_file_to_batch_append(u)
                \/ add_file_to_batch_full(u)
           ELSE UNCHANGED processor

\* handle_svg_document for the update up of user u; dl: get_file and
\* download_as_bytearray return (else they raise, the handler replies and
\* returns).  A file that passed the checks and was downloaded is handed to
\* add_file_to_batch.
handle_svg_document(u, up, dl) ==
    LET r == Admission(up)
        result == IF r = "admitted" /\ ~dl THEN "download_failed" ELSE r
    IN  /\ admission' = [user_id |-> u, upload |-> up, result |-> result]
        /\ IF result = "admitted"
           THEN \/ add_file_to_batch_create(u)
                \/ add_file_to_batch_append(u)
                \/ add_file_to_batch_full(u)
           ELSE UNCHANGED processor


\* ------------------------------------------------------- deferred tasks
\* asyncio wakes sleepers in deadline order.  Debounce timers all sleep
\* config.processing_delay (3 s) and cleanups all sleep 300 s, so a timer
\* fires after every timer armed before it, and a cleanup fires after every
\* task armed before it; a timer may overtake a cleanup armed earlier.
\* A batch's own timer sleeps from the return of the send_message of the call
\* that created it, which started before the batch was completed and lasts no
\* longer than the transport's timeout: it fires before the batch's cleanup.
CanFire(i) ==
    /\ \A j \in 1..(i - 1) : tasks[i].kind = "timer" /\ tasks[j].kind = "cleanup"
    /\ tasks[i].kind = "cleanup" =>
          /\ \A h \in handlers : h.job # tasks[i].inst
          /\ \A j \in 1..Len(tasks) :
                 tasks[j].kind = "timer" => tasks[j].inst # tasks[i].inst

\* mutant of schedule_batch_processing: the put is made only if the batch is
\* still in batch_jobs and not completed
schedule_batch_processing_guarded(i) ==
    /\ i \in 1..Len(tasks)
    /\ tasks[i].kind = "timer"
    /\ CanFire(i)
    /\ IF batch_jobs[tasks[i].user_id] # 0 /\ ~heap[batch_jobs[tasks[i].user_id]].completed
       THEN /\ processing_queue' = Append(processing_queue, DispatchSignal(tasks[i].user_id, tasks[i].inst, "timer"))
            /\ nextTicket' = nextTicket + 1
       ELSE UNCHANGED <<processing_queue, nextTicket>>
    /\ heap' = [heap EXCEPT ![tasks[i].inst].expired = TRUE]
    /\ tasks' = RemoveAt(tasks, i)
    /\ UNCHANGED <<worker, transport, admission, file_log, cleanup_log, batch_jobs, handlers, procs, nextFile, attempts, returned,
                   owner, lastDeq>>

\* _schedule_batch_processing after the sleep: put user_id, unconditionally
schedule_batch_processing(i) ==
    /\ i \in 1..Len(tasks)
    /\ tasks[i].kind = "timer"
    /\ CanFire(i)
    /\ processing_queue' = Append(processing_queue, DispatchSignal(tasks[i].user_id, tasks[i].inst, "timer"))
    /\ nextTicket' = nextTicket + 1
    /\ heap' = [heap EXCEPT ![tasks[i].inst].expired = TRUE]
    /\ tasks' = RemoveAt(tasks, i)
    /\ UNCHANGED <<worker, transport, admission, file_log, cleanup_log, batch_jobs, handlers, procs, nextFile, attempts, returned, owner,
                   lastDeq>>

\* "del self.batch_jobs[user_id]" without the membership test in front of it:
\* del raises KeyError on a missing key, which the except clause logs
Evict_unguarded(bj, u) ==
    [jobs |-> [bj EXCEPT ![u] = 0], error |-> bj[u] = 0]

\* mutant of Evict: the cleanup empties the whole dictionary
Evict_clears_all(bj, u) ==
    [jobs |-> [v \in DOMAIN bj |-> 0], error |-> FALSE]

\* "if user_id in self.batch_jobs: del self.batch_jobs[user_id]"; error: the
\* except clause of _cleanup_batch has logged an exception
Evict(bj, u) ==
    IF bj[u] # 0
    THEN [jobs |-> [bj EXCEPT ![u] = 0], error |-> FALSE]
    ELSE [jobs |-> bj, error |-> FALSE]

\* cleanup_log after a call for user u with result r
Logged(u, r) ==
    [fired |-> cleanup_log.fired + 1,
     absent |-> cleanup_log.absent + (IF batch_jobs[u] = 0 THEN 1 ELSE 0),
     errors |-> cleanup_log.errors + (IF r.error THEN 1 ELSE 0)]

\* _cleanup_batch after the sleep: delete whatever entry the user has
cleanup_batch(i) ==
    /\ i \in 1..Len(tasks)
    /\ tasks[i].kind = "cleanup"
    /\ CanFire(i)
    /\ LET r == Evict(batch_jobs, tasks[i].user_id)
       IN  /\ batch_jobs' = r.jobs
           /\ cleanup_log' = Logged(tasks[i].user_id, r)
    /\ tasks' = RemoveAt(tasks, i)
    /\ UNCHANGED <<worker, transport, admission, file_log, heap, processing_queue, handlers, procs,
                   nextFile, nextTicket, attempts, returned, owner, lastDeq>>

\* get_user_batch_status: None without an entry, else the status text
get_user_batch_status(u) ==
    IF batch_jobs[u] = 0 THEN "None"
    ELSE IF heap[batch_jobs[u]].completed THEN "Completed" ELSE "Processing"

\* ------------------------------------------------------ start_processing
\* mutant of GetIndex: a last-in first-out queue
GetIndex_lifo(q) == Len(q)

\* asyncio.Queue is first-in first-out: get() takes the item at the front
GetIndex(q) == 1

\* mutant of WorkerIdle: _process_batch started as a task, not awaited
WorkerIdle_not_awaited == TRUE

\* there is one worker task (src/bot.py:92) and its loop awaits
\* _process_batch before it calls get() again
WorkerIdle == procs = {}

\* mutant of ShouldProcess: the completed flag is not looked at
ShouldProcess_ignores_completed(b, hp) == b # 0

\* "if user_id in self.batch_jobs" and, in _process_batch,
\* "if not batch_job or batch_job.completed: return"; hp is the heap to look in
ShouldProcess(b, hp) == b # 0 /\ ~hp[b].completed

\* history record of a dequeue
Dequeued(s, result) ==
    [ticket |-> s.ticket, user_id |-> s.user_id, src |-> s.src, inst |-> s.inst,
     result |-> result]

\* The while loop from a get() to its next suspension.  get() on a non-empty
\* asyncio.Queue returns without yielding and _process_batch returns without
\* yielding for an absent or completed batch, so the worker drops such signals
\* one after the other until it starts a batch (job # 0) or the queue is
\* empty and get() blocks.
RECURSIVE Drain(_, _, _)

\* mutant of Drain: after a signal for a submitter without an entry the
\* worker does not go on to the next signal
Drain_stops_at_absent(q, hp, last) ==
    IF q = <<>>
    THEN [queue |-> q, last |-> last, job |-> 0]
    ELSE LET k == GetIndex(q)
             s == q[k]
             b == batch_jobs[s.user_id]
         IN IF ShouldProcess(b, hp)
            THEN [queue |-> RemoveAt(q, k), last |-> Dequeued(s, "started"), job |-> b]
            ELSE IF b = 0
            THEN [queue |-> RemoveAt(q, k), last |-> Dequeued(s, "absent"), job |-> 0]
            ELSE Drain(RemoveAt(q, k), hp, Dequeued(s, "completed"))

Drain(q, hp, last) ==
    IF q = <<>>
    THEN [queue |-> q, last |-> last, job |-> 0]
    ELSE LET k == GetIndex(q)
             s == q[k]
             b == batch_jobs[s.user_id]
         IN IF ShouldProcess(b, hp)
            THEN [queue |-> RemoveAt(q, k), last |-> Dequeued(s, "started"), job |-> b]
            ELSE Drain(RemoveAt(q, k), hp,
                       Dequeued(s, IF b = 0 THEN "absent" ELSE "completed"))

\* status_text before the final status is composed
NoStatus == [kind |-> "none", counts |-> <<>>]

\* mutant of Activation: the call starts on the files without the
\* "Converting N files" edit
Activation_unannounced(d) ==
    [user_id |-> d.last.user_id, job |-> d.job, pc |-> "announce", i |-> 0,
     successful_conversions |-> 0, failed_conversions |-> 0,
     ticket |-> d.last.ticket, sig_inst |-> d.last.inst, n |-> 0, first_fail |-> 0,
     log |-> <<>>, status_text |-> NoStatus]

\* a _process_batch call suspended in the "Converting N files" edit
Activation(d) ==
    [user_id |-> d.last.user_id, job |-> d.job, pc |-> "announce", i |-> 0,
     successful_conversions |-> 0, failed_conversions |-> 0,
     ticket |-> d.last.ticket, sig_inst |-> d.last.inst, n |-> 0, first_fail |-> 0,
     log |-> <<"start">>, status_text |-> NoStatus]

\* the worker runs its loop on heap hp, the other activations being rest
Serve(hp, rest) ==
    LET d == Drain(processing_queue, hp, lastDeq) IN
    /\ processing_queue' = d.queue
    /\ lastDeq' = d.last
    /\ heap' = IF d.job # 0 THEN [hp EXCEPT ![d.job].passes = @ + 1] ELSE hp
    /\ procs' = IF d.job # 0 THEN rest \cup {Activation(d)} ELSE rest

\* the worker, blocked in get() on an empty queue, is woken by a put
start_processing ==
    /\ WorkerIdle
    /\ processing_queue # <<>>
    /\ Serve(heap, procs)
    /\ UNCHANGED <<worker, transport, admission, file_log, cleanup_log, batch_jobs, tasks, handlers, nextFile, nextTicket, attempts,
                   returned, owner>>

\* -------------------------------------------------------- _process_batch
\* An activation p: job is the BatchJob object it holds, i the number of files
\* the for loop has taken from batch_job.files so far.  History fields:
\* ticket and sig_inst (the signal that started it), n (len(files) when the
\* loop ended), first_fail (position of the first file that failed), log (the
\* edits of the status message this call has made or is waiting on).

\* what can happen to one file: the validator rejects it, it is converted and
\* sent, the converter reports failure (or returns no data), or a call raises
\* inside the try: validate_file, validate_and_convert or send_document
Outcomes ==
    {"invalid", "ok", "convfail", "validate_raised", "convert_raised", "send_raised"}

\* the except clause of the loop body: _send_error_message, no log_conversion
Raised(e) == [e EXCEPT !.notices = @ + 1]

\* mutant of FileEffects: the success is recorded before send_document
FileEffects_records_before_send(e, o) ==
    IF o = "validate_raised" THEN Raised([e EXCEPT !.verdict = "raised"])
    ELSE IF o = "invalid"
    THEN [e EXCEPT !.verdict = "invalid", !.notices = @ + 1,
                   !.records = Append(@, FALSE)]
    ELSE LET c == [e EXCEPT !.verdict = "valid", !.converted = @ + 1] IN
         IF o = "convert_raised" THEN Raised([c EXCEPT !.converter = "raised"])
         ELSE IF o = "convfail"
         THEN [c EXCEPT !.converter = "fail", !.notices = @ + 1,
                        !.records = Append(@, FALSE)]
         ELSE LET r == [c EXCEPT !.converter = "ok", !.records = Append(@, TRUE)] IN
              IF o = "send_raised" THEN Raised(r)
              ELSE [r EXCEPT !.delivered = @ + 1]

\* the calls one pass of the loop body makes for a file whose record so far
\* is e, when the pass goes as o: validate_file; if it rejects, error
\* message, log_conversion(False), continue; else validate_and_convert; if it
\* succeeded with data, send_document and then log_conversion(True); else
\* error message and log_conversion(False); a call that raises leads to the
\* except clause
FileEffects(e, o) ==
    IF o = "validate_raised" THEN Raised([e EXCEPT !.verdict = "raised"])
    ELSE IF o = "invalid"
    THEN [e EXCEPT !.verdict = "invalid", !.notices = @ + 1,
                   !.records = Append(@, FALSE)]
    ELSE LET c == [e EXCEPT !.verdict = "valid", !.converted = @ + 1] IN
         IF o = "convert_raised" THEN Raised([c EXCEPT !.converter = "raised"])
         ELSE IF o = "convfail"
         THEN [c EXCEPT !.converter = "fail", !.notices = @ + 1,
                        !.records = Append(@, FALSE)]
         ELSE LET r == [c EXCEPT !.converter = "ok"] IN
              IF o = "send_raised" THEN Raised(r)
              ELSE [r EXCEPT !.delivered = @ + 1, !.records = Append(@, TRUE)]

\* mutant of Tally: a progress update to the status message after every
\* ProgressEvery-th file
Tally_with_progress(p, o) ==
    LET t == IF o = "ok"
             THEN [p EXCEPT !.successful_conversions = @ + 1]
             ELSE [p EXCEPT !.failed_conversions = @ + 1,
                            !.first_fail = IF @ = 0 THEN p.i ELSE @]
    IN  IF (t.successful_conversions + t.failed_conversions) % ProgressEvery = 0
        THEN [t EXCEPT !.log = Append(@, "progress")]
        ELSE t

\* mutant of Tally: the except clause does not count the file
Tally_skips_raised(p, o) ==
    IF o = "ok"
    THEN [p EXCEPT !.successful_conversions = @ + 1]
    ELSE IF o \in {"invalid", "convfail"}
    THEN [p EXCEPT !.failed_conversions = @ + 1,
                   !.first_fail = IF @ = 0 THEN p.i ELSE @]
    ELSE p

\* successful_conversions += 1 / failed_conversions += 1
Tally(p, o) ==
    IF o = "ok"
    THEN [p EXCEPT !.successful_conversions = @ + 1]
    ELSE [p EXCEPT !.failed_conversions = @ + 1,
                   !.first_fail = IF @ = 0 THEN p.i ELSE @]

\* mutant of AfterFile: a file that fails ends the loop
AfterFile_break(o, i, len) ==
    IF i >= len \/ o # "ok" THEN "exit" ELSE "pace"

\* where the loop body leaves the loop after file i of len: "continue" and the
\* except clause go straight to the next file, the other two paths sleep 0.5 s
\* first unless the file is the last one
AfterFile(o, i, len) ==
    IF i >= len THEN "exit"
    ELSE IF o \in {"ok", "convfail"} THEN "pace" ELSE "next"

\* mutant of FinalStatus: the counts line is added whenever a file succeeded
FinalStatus_counts_always(successful, failed) ==
    IF successful > 0
    THEN [kind |-> "done", counts |-> <<successful, failed>>]
    ELSE [kind |-> "nothing_converted", counts |-> <<>>]

\* the text of the final status: "Done" when successful_conversions > 0, with
\* the line "N converted | M failed" added when failed_conversions > 0 too;
\* otherwise "No files could be converted"
FinalStatus(successful, failed) ==
    IF successful > 0
    THEN [kind |-> "done",
          counts |-> IF failed > 0 THEN <<successful, failed>> ELSE <<>>]
    ELSE [kind |-> "nothing_converted", counts |-> <<>>]

\* the loop has ended on a list of len files: the call composes the final
\* status text and suspends in the edit_message_text that sends it.
\* Finish_silent_without_success sends it only when some file was converted.
Finish_silent_without_success(q, len) ==
    [q EXCEPT !.pc = "final", !.n = len,
              !.status_text = FinalStatus(q.successful_conversions, q.failed_conversions),
              !.log = IF q.successful_conversions > 0 THEN Append(@, "final") ELSE @]

Finish(q, len) ==
    [q EXCEPT !.pc = "final", !.n = len,
              !.status_text = FinalStatus(q.successful_conversions, q.failed_conversions),
              !.log = Append(@, "final")]

\* mutant of Iterate: the loop takes the newest file first
Iterate_newest_first(p, q) ==
    LET fs == heap[q.job].files IN
    IF q.i < Len(fs)
    THEN /\ procs' = (procs \ {p}) \cup {[q EXCEPT !.i = @ + 1, !.pc = "file"]}
         /\ attempts' = [attempts EXCEPT ![fs[Len(fs) - q.i]] = @ + 1]
    ELSE /\ procs' = (procs \ {p}) \cup {Finish(q, Len(fs))}
         /\ attempts' = attempts

\* The list iterator of "for i, file_obj in enumerate(batch_job.files)" asks
\* the live list for its next item: a file appended meanwhile is taken too.
\* The next file is validated at once (validate_file does not suspend).
Iterate(p, q) ==
    LET fs == heap[q.job].files IN
    IF q.i < Len(fs)
    THEN /\ procs' = (procs \ {p}) \cup {[q EXCEPT !.i = @ + 1, !.pc = "file"]}
         /\ attempts' = [attempts EXCEPT ![fs[q.i + 1]] = @ + 1]
    ELSE /\ procs' = (procs \ {p}) \cup {Finish(q, Len(fs))}
         /\ attempts' = attempts

\* the "Converting N files" edit returned or raised (logged): the loop starts
process_batch_announced(p) ==
    /\ p \in procs
    /\ p.pc = "announce"
    /\ Iterate(p, p)
    /\ UNCHANGED <<worker, admission, file_log, cleanup_log, batch_jobs, heap, processing_queue, tasks, handlers, nextFile,
                   nextTicket, returned, owner, lastDeq>>

\* the awaits of one loop body have returned or raised, with outcome o
process_batch_file_done(p, o) ==
    /\ p \in procs
    /\ p.pc = "file"
    /\ LET q == Tally(p, o)
           len == Len(heap[p.job].files)
           step == AfterFile(o, p.i, len)
       IN
        IF step = "pace"
        THEN /\ procs' = (procs \ {p}) \cup {[q EXCEPT !.pc = "pace"]}
             /\ attempts' = attempts
        ELSE IF step = "next"
        THEN Iterate(p, q)
        ELSE /\ procs' = (procs \ {p}) \cup {Finish(q, len)}
             /\ attempts' = attempts
    /\ UNCHANGED <<worker, admission, cleanup_log, batch_jobs, heap, processing_queue, tasks, handlers, nextFile,
                   nextTicket, returned, owner, lastDeq>>

\* asyncio.sleep(0.5) between two files is over
process_batch_paced(p) ==
    /\ p \in procs
    /\ p.pc = "pace"
    /\ Iterate(p, p)
    /\ UNCHANGED <<worker, transport, admission, file_log, cleanup_log, batch_jobs, heap, processing_queue, tasks, handlers, nextFile,
                   nextTicket, returned, owner, lastDeq>>

\* mutant of process_batch_finalized: the cleanup task is not created
process_batch_finalized_no_cleanup(p) ==
    /\ p \in procs
    /\ p.pc = "final"
    /\ Serve([heap EXCEPT ![p.job].completed = TRUE, ![p.job].log = @ \o p.log],
             procs \ {p})
    /\ UNCHANGED <<worker, admission, file_log, cleanup_log, batch_jobs, tasks, handlers, nextFile, nextTicket,
                   attempts, returned, owner>>

\* the final status edit returned or raised (logged): completed = True,
\* create_task(_cleanup_batch(user_id, delay=300)), return; the worker loop
\* goes on to its next get()
process_batch_finalized(p) ==
    /\ p \in procs
    /\ p.pc = "final"
    /\ tasks' = Append(tasks, [kind |-> "cleanup", user_id |-> p.user_id, inst |-> p.job])
    /\ Serve([heap EXCEPT ![p.job].completed = TRUE, ![p.job].cleanups = @ + 1,
                          ![p.job].log = @ \o p.log],
             procs \ {p})
    /\ UNCHANGED <<worker, admission, file_log, cleanup_log, batch_jobs, handlers, nextFile, nextTicket, attempts, returned, owner>>

process_batch ==
    \/ \E p \in procs : process_batch_announced(p) /\ UNCHANGED transport
    \/ \E p \in procs, o \in Outcomes :
          process_batch_file_done(p, o) /\ UNCHANGED <<file_log, transport>>
    \/ \E p \in procs : process_batch_paced(p)
    \/ \E p \in procs : process_batch_finalized(p) /\ UNCHANGED transport

Next ==
    \/ add_file_to_batch
    \/ start_processing
    \/ process_batch
    \/ \E i \in 1..Len(tasks) : schedule_batch_processing(i)
    \/ \E i \in 1..Len(tasks) : cleanup_batch(i)

Spec == Init /\ [][Next]_vars

\* The scheduling the event loop guarantees: a coroutine whose await has
\* returned is resumed, a sleep that is over wakes its task, and the worker
\* takes the next signal once it is idle.  Uploads are under no obligation.
FairSpec ==
    /\ Spec
    /\ WF_vars(\E h \in handlers, sent \in BOOLEAN : add_file_to_batch_sent(h, sent))
    /\ WF_vars(\E i \in 1..Len(tasks) : schedule_batch_processing(i))
    /\ WF_vars(\E i \in 1..Len(tasks) : cleanup_batch(i))
    /\ WF_vars(start_processing)
    /\ WF_vars(process_batch)

\* ------------------------------------------- the except clause of the driver
\* An exception raised by the driver itself, outside the per-file try and
\* outside the guarded edits (a MemoryError while a log line is formatted or
\* the loop advances), is caught at "except Exception as e" of _process_batch:
\* the call logs it and suspends in the edit that sends "Batch processing
\* failed".
process_batch_raised(p) ==
    /\ p \in procs
    /\ p.pc \in {"announce", "file", "pace"}
    /\ procs' = (procs \ {p}) \cup {[p EXCEPT !.pc = "failed", !.log = Append(@, "failed")]}
    /\ UNCHANGED <<worker, transport, admission, file_log, cleanup_log, batch_jobs, heap, processing_queue, tasks, handlers,
                   nextFile, nextTicket, attempts, returned, owner, lastDeq>>

\* the failure edit returned or raised (logged): the call returns; neither
\* "completed = True" nor the create_task of the cleanup has run
process_batch_failed(p) ==
    /\ p \in procs
    /\ p.pc = "failed"
    /\ Serve([heap EXCEPT ![p.job].log = @ \o p.log], procs \ {p})
    /\ UNCHANGED <<worker, transport, admission, file_log, cleanup_log, batch_jobs, tasks, handlers, nextFile, nextTicket,
                   attempts, returned, owner>>

NextFault ==
    \/ Next
    \/ \E p \in procs : process_batch_raised(p)
    \/ \E p \in procs : process_batch_failed(p)

\* the program with a driver that can fail
FaultSpec == Init /\ [][NextFault]_vars

\* --------------------------------------------- _cleanup_batch as a function
\* number of _cleanup_batch calls whose sleep is over
MaxCleanups == 3

CleanupTask(u) == [kind |-> "cleanup", user_id |-> u, inst |-> u]

\* the BatchJob of user u after _process_batch has completed it
Retained(u) ==
    [BatchJob(u, u) EXCEPT !.status_message_id = [kind |-> "status", id |-> u],
                           !.completed = TRUE, !.expired = TRUE, !.passes = 1,
                           !.cleanups = 1, !.log = <<"start", "final">>]

\* any dictionary of retained batches and any calls _cleanup_batch(user_id)
InitEvict ==
    /\ batch_jobs \in {bj \in [Users -> 0..NumUsers] : \A u \in Users : bj[u] \in {0, u}}
    /\ heap = [b \in Files |-> IF b \in Users /\ batch_jobs[b] = b THEN Retained(b) ELSE NoJob]
    /\ processing_queue = <<>>
    /\ tasks \in UNION {[1..n -> {CleanupTask(u) : u \in Users}] : n \in 0..MaxCleanups}
    /\ handlers = {}
    /\ procs = {}
    /\ nextFile = 1
    /\ nextTicket = 1
    /\ attempts = [f \in Files |-> 0]
    /\ returned = [f \in Files |-> "none"]
    /\ owner = [f \in Files |-> 0]
    /\ lastDeq = [ticket |-> 0, user_id |-> 0, src |-> "none", inst |-> 0,
                  result |-> "none"]
    /\ cleanup_log = [fired |-> 0, absent |-> 0, errors |-> 0]
    /\ admission = [user_id |-> 0, upload |-> NoUpload, result |-> "none"]
    /\ file_log = [f \in Files |-> NoEffects]
    /\ transport = [b \in Files |-> {}]
    /\ worker = Looping

NextEvict == \E i \in 1..Len(tasks) : cleanup_batch(i)

EvictSpec == InitEvict /\ [][NextEvict]_vars

\* ------------------------------------------------- the uploads' side alone
\* One handle_svg_document call is followed through its checks, for every
\* kind of update and at any moment between the add_file_to_batch calls of
\* the other uploads, the creating calls' resumptions and the debounce
\* timers; the worker has not been woken.
NextAdmit ==
    \/ /\ admission.result = "none"
       /\ \E u \in Users, up \in Uploads, dl \in BOOLEAN : handle_svg_document(u, up, dl)
    \/ add_file_to_batch
    \/ \E i \in 1..Len(tasks) : schedule_batch_processing(i)

AdmitSpec == Init /\ [][NextAdmit]_vars

\* ------------------------------------------------- the loop body, file by file
\* the loop body of call p has finished its current file with outcome o, and
\* file_log keeps what it did for that file
process_batch_file_logged(p, o) ==
    /\ process_batch_file_done(p, o)
    /\ file_log' = [file_log EXCEPT ![heap[p.job].files[p.i]] = FileEffects(@, o)]

\* the uploads of one submitter
add_file_to_batch_of(u) ==
    \/ add_file_to_batch_create(u) /\ UNCHANGED admission
    \/ \E h \in handlers, sent \in BOOLEAN : add_file_to_batch_sent(h, sent)
    \/ add_file_to_batch_append(u) /\ UNCHANGED admission
    \/ add_file_to_batch_full(u) /\ UNCHANGED admission

\* the submitter who uploads first (see Arrives)
FirstSubmitter == CHOOSE u \in Users : \A v \in Users : u <= v

NextLoop ==
    \/ add_file_to_batch_of(FirstSubmitter)
    \/ start_processing
    \/ \E p \in procs : process_batch_announced(p) /\ UNCHANGED transport
    \/ \E p \in procs, o \in Outcomes :
          process_batch_file_logged(p, o) /\ UNCHANGED transport
    \/ \E p \in procs : process_batch_paced(p)
    \/ \E p \in procs : process_batch_finalized(p) /\ UNCHANGED transport
    \/ \E i \in 1..Len(tasks) : schedule_batch_processing(i)

\* the program serving one submitter up to the cleanup of the batch, with the
\* per-file record kept
LoopSpec == Init /\ [][NextLoop]_vars

\* ------------------------------------------ the worker's Telegram calls fail
\* the Telegram call that a step of call p waited on returned (ok) or raised
\* and was logged by the except clause around it
Failed(p, call, ok) ==
    transport' = IF ok THEN transport
                 ELSE [transport EXCEPT ![p.job] = @ \cup {call}]

NextTransport ==
    \/ add_file_to_batch_of(FirstSubmitter)
    \/ start_processing
    \/ \E p \in procs, ok \in BOOLEAN :
          process_batch_announced(p) /\ Failed(p, "start", ok)
    \/ \E p \in procs, o \in Outcomes, ok \in BOOLEAN :
          /\ process_batch_file_done(p, o)
          /\ Failed(p, "notice", ok \/ o = "ok")
          /\ UNCHANGED file_log
    \/ \E p \in procs : process_batch_paced(p)
    \/ \E p \in procs, ok \in BOOLEAN :
          process_batch_finalized(p) /\ Failed(p, "final", ok)
    \/ \E i \in 1..Len(tasks) : schedule_batch_processing(i)

\* the program serving one submitter up to the cleanup of the batch, with the
\* failures of the worker's status edits and error notifications kept
TransportSpec == Init /\ [][NextTransport]_vars

\* -------------------------------------------------------- stop_processing
\* mutant of LoopsOn: the loop is "while True"
LoopsOn_forever(w) == TRUE

\* "while self.is_processing", tested before each get()
LoopsOn(w) == w.is_processing

\* the number of signals the worker has dequeued so far
Handled == (nextTicket - 1) - Len(processing_queue)

\* stop_processing(): is_processing = False.  It is an ordinary function:
\* it runs between two suspension points of the coroutines.
stop_processing ==
    /\ worker' = IF worker.stopped
                 THEN [worker EXCEPT !.is_processing = FALSE]
                 ELSE [worker EXCEPT !.is_processing = FALSE, !.stopped = TRUE,
                                     !.mark = Handled,
                                     !.job = IF procs = {} THEN 0
                                             ELSE (CHOOSE p \in procs : TRUE).job]
    /\ UNCHANGED <<batch_jobs, heap, processing_queue, tasks, handlers, procs, nextFile,
                   nextTicket, attempts, returned, owner, lastDeq, cleanup_log,
                   admission, file_log, transport>>

\* the worker was blocked in get() when is_processing was cleared: the get()
\* returns the next signal, which is handled like any other (dropped, or its
\* batch started); after a dropped signal the while test ends the loop
start_processing_stopped ==
    /\ ~LoopsOn(worker)
    /\ ~worker.exited
    /\ WorkerIdle
    /\ processing_queue # <<>>
    /\ LET k == GetIndex(processing_queue)
           s == processing_queue[k]
           b == batch_jobs[s.user_id]
       IN  /\ processing_queue' = RemoveAt(processing_queue, k)
           /\ IF ShouldProcess(b, heap)
              THEN /\ lastDeq' = Dequeued(s, "started")
                   /\ heap' = [heap EXCEPT ![b].passes = @ + 1]
                   /\ procs' = {Activation([last |-> Dequeued(s, "started"), job |-> b])}
                   /\ worker' = worker
              ELSE /\ lastDeq' = Dequeued(s, IF b = 0 THEN "absent" ELSE "completed")
                   /\ heap' = heap
                   /\ procs' = procs
                   /\ worker' = [worker EXCEPT !.exited = TRUE]
    /\ UNCHANGED <<transport, admission, file_log, cleanup_log, batch_jobs, tasks, handlers,
                   nextFile, nextTicket, attempts, returned, owner>>

\* _process_batch returns after is_processing was cleared: completed = True,
\* the cleanup is scheduled, and the while test ends the loop
process_batch_finalized_stopped(p) ==
    /\ ~LoopsOn(worker)
    /\ p \in procs
    /\ p.pc = "final"
    /\ tasks' = Append(tasks, [kind |-> "cleanup", user_id |-> p.user_id, inst |-> p.job])
    /\ heap' = [heap EXCEPT ![p.job].completed = TRUE, ![p.job].cleanups = @ + 1,
                            ![p.job].log = @ \o p.log]
    /\ procs' = procs \ {p}
    /\ worker' = [worker EXCEPT !.exited = TRUE]
    /\ UNCHANGED <<transport, admission, file_log, cleanup_log, batch_jobs, processing_queue,
                   handlers, nextFile, nextTicket, attempts, returned, owner, lastDeq>>

NextStop ==
    \/ add_file_to_batch_of(FirstSubmitter)
    \/ LoopsOn(worker) /\ start_processing
    \/ start_processing_stopped
    \/ \E p \in procs : process_batch_announced(p) /\ UNCHANGED transport
    \/ \E p \in procs, o \in Outcomes :
          process_batch_file_done(p, o) /\ UNCHANGED <<file_log, transport>>
    \/ \E p \in procs : process_batch_paced(p)
    \/ \E p \in procs :
          LoopsOn(worker) /\ process_batch_finalized(p) /\ UNCHANGED transport
    \/ \E p \in procs : process_batch_finalized_stopped(p)
    \/ stop_processing
    \/ \E i \in 1..Len(tasks) : schedule_batch_processing(i)
    \/ \E i \in 1..Len(tasks) : cleanup_batch(i)

\* the program serving one submitter, with a caller of stop_processing
StopSpec == Init /\ [][NextStop]_vars

\* ----------------------------------------------------------------- claims
Job(u) == heap[batch_jobs[u]]

\* this step is an add_file_to_batch call made with user_id u
Adds(u) == nextFile' = nextFile + 1 /\ owner'[nextFile] = u

\* C1: every BatchJob in batch_jobs holds at most max_batch_size files.
C1_BatchNeverExceedsMax ==
    \A u \in Users : batch_jobs[u] # 0 => Len(Job(u).files) <= max_batch_size

\* a batch is at the bound and a further file for it has been turned away
C1_Witness ==
    \E u \in Users, f \in Files :
        /\ batch_jobs[u] # 0
        /\ Len(Job(u).files) = max_batch_size
        /\ owner[f] = u
        /\ returned[f] = "false"

C3_NewBatchAfterCompletion ==
    [][\A u \in Users :
        (Adds(u) /\ batch_jobs[u] # 0 /\ Job(u).completed)
        => (/\ batch_jobs'[u] = nextFile
            /\ heap'[nextFile].files = <<nextFile>>
            /\ ~heap'[nextFile].completed
            /\ [user_id |-> u, file |-> nextFile, job |-> nextFile] \in handlers'
            /\ heap'[batch_jobs[u]].files = heap[batch_jobs[u]].files)]_vars

\* C4: no file is attempted more than once, and the per-file pass starts at
\* most once on every batch object.
C4_AttemptedAtMostOnce ==
    /\ \A f \in Files : attempts[f] <= 1
    /\ \A b \in Files : heap[b].passes <= 1

\* the worker has just dequeued a batch-full signal for a batch that an
\* earlier signal had already got processed, and skipped it
C4_Witness ==
    /\ lastDeq.result = "completed"
    /\ lastDeq.src = "full"
    /\ batch_jobs[lastDeq.user_id] # 0
    /\ Job(lastDeq.user_id).passes = 1
    /\ \A k \in 1..Len(Job(lastDeq.user_id).files) :
          attempts[Job(lastDeq.user_id).files[k]] = 1

\* C5: every file for which add_file_to_batch returned True is eventually
\* attempted by the worker.
C5_AcceptedEventuallyAttempted ==
    \A f \in Files : (returned[f] = "true") ~> (attempts[f] >= 1)

\* C6: a completed batch contains no file the worker has not attempted.
C6_CompletedMeansAllAttempted ==
    \A u \in Users :
        (batch_jobs[u] # 0 /\ Job(u).completed)
        => \A k \in 1..Len(Job(u).files) : attempts[Job(u).files[k]] >= 1

\* C7: at most one batch is between the start of _process_batch and its
\* return.
C7_OneBatchAtATime == Cardinality(procs) <= 1

\* a batch is being processed while a signal for another submitter, whose
\* batch is ready to be processed, waits on the queue
C7_Witness ==
    \E p \in procs :
        /\ processing_queue # <<>>
        /\ Head(processing_queue).user_id # p.user_id
        /\ ShouldProcess(batch_jobs[Head(processing_queue).user_id], heap)

\* C8: signals are dequeued in the order they were enqueued: no signal still
\* on the queue was enqueued before the one the worker dequeued last, and the
\* queue holds its signals in enqueue order.
C8_DequeueInEnqueueOrder ==
    /\ \A k \in 1..Len(processing_queue) : processing_queue[k].ticket > lastDeq.ticket
    /\ \A j, k \in 1..Len(processing_queue) :
          j < k => processing_queue[j].ticket < processing_queue[k].ticket

\* the worker has dequeued a signal of one producer while a signal of the
\* other producer, enqueued later, waits
C8_Witness ==
    /\ lastDeq.ticket >= 1
    /\ Len(processing_queue) >= 2
    /\ Head(processing_queue).src # lastDeq.src

\* C9: when the per-file loop of a batch has ended, every file after a file
\* that failed has been attempted.
C9_FailureDoesNotHaltBatch ==
    \A p \in procs :
        (p.pc = "final" /\ p.first_fail > 0)
        => \A k \in (p.first_fail + 1)..p.n : attempts[heap[p.job].files[k]] >= 1

\* the loop of a batch has ended after a failure on a file that was not the
\* last one
C9_Witness ==
    \E p \in procs :
        /\ p.pc = "final"
        /\ p.first_fail > 0
        /\ p.first_fail < p.n
        /\ p.successful_conversions + p.failed_conversions = p.n

\* C10: the worker processes a batch object only once that object's own
\* debounce timer has expired or the object holds max_batch_size files, and
\* only on a signal that was enqueued for that object.
C10_NoPrematureDispatch ==
    \A p \in procs :
        /\ heap[p.job].expired \/ Len(heap[p.job].files) >= max_batch_size
        /\ p.sig_inst = p.job

\* the sleep of a _cleanup_batch(u) is over and the call runs in this step
CleanupFires(u) ==
    \E i \in 1..Len(tasks) :
        /\ tasks[i].kind = "cleanup"
        /\ tasks[i].user_id = u
        /\ tasks' = RemoveAt(tasks, i)

\* the cleanup that runs in this step is the one scheduled by the completion
\* of the batch u has now
OwnCleanupFires(u) ==
    \E i \in 1..Len(tasks) :
        /\ tasks[i] = [kind |-> "cleanup", user_id |-> u, inst |-> batch_jobs[u]]
        /\ tasks' = RemoveAt(tasks, i)

\* a cleanup scheduled by the completion of u's batch is pending
CleanupPending(u) ==
    \E i \in 1..Len(tasks) :
        tasks[i] = [kind |-> "cleanup", user_id |-> u, inst |-> batch_jobs[u]]

\* C11: a completed batch has its cleanup pending and stays the submitter's
\* entry, reported as "Completed", in every step but the one in which that
\* cleanup runs; a cleanup that runs leaves the submitter without an entry;
\* and a submitter without an entry gets one only by an add_file_to_batch
\* call of their own.
C11_RetainedUntilCleanup ==
    /\ [](\A u \in Users :
            get_user_batch_status(u) = "Completed" => CleanupPending(u))
    /\ [][\A u \in Users :
            /\ (get_user_batch_status(u) = "Completed" /\ ~OwnCleanupFires(u)) =>
                  /\ batch_jobs'[u] = batch_jobs[u]
                  /\ get_user_batch_status(u)' = "Completed"
            /\ CleanupFires(u) => get_user_batch_status(u)' = "None"
            /\ (batch_jobs[u] = 0 /\ batch_jobs'[u] # 0) => Adds(u)]_vars

\* the cleanup of a completed batch has run and its submitter has no entry
C11_Witness ==
    \E b \in Files :
        /\ heap[b].completed
        /\ cleanup_log.fired >= 1
        /\ batch_jobs[heap[b].user_id] = 0

\* number of final status updates in a log of status edits
FinalUpdates(log) == Cardinality({k \in 1..Len(log) : log[k] = "final"})

\* the status edits made for BatchJob b so far, by the calls that returned and
\* by the one that is running
StatusLog(b) ==
    IF \E p \in procs : p.job = b
    THEN heap[b].log \o (CHOOSE p \in procs : p.job = b).log
    ELSE heap[b].log

\* C12: no batch ever has more than one final status update; a batch whose
\* loop has ended has exactly one, and so has every completed batch, whatever
\* the numbers of converted and failed files.
C12_FinalStatusExactlyOnce ==
    /\ \A b \in Files :
          /\ FinalUpdates(StatusLog(b)) <= 1
          /\ heap[b].completed => FinalUpdates(heap[b].log) = 1
    /\ \A p \in procs : p.pc = "final" => FinalUpdates(StatusLog(p.job)) = 1

\* a batch with converted and failed files whose final update is being sent
C12_Witness ==
    \E p \in procs :
        /\ p.pc = "final"
        /\ p.successful_conversions >= 1
        /\ p.failed_conversions >= 1
        /\ FinalUpdates(StatusLog(p.job)) = 1

\* number of files the call p has dealt with
Processed(p) == p.successful_conversions + p.failed_conversions

C14_EvictionIdempotent ==
    /\ [](\A u \in Users :
            LET once == Evict(batch_jobs, u)
                twice == Evict(once.jobs, u)
            IN  twice.jobs = once.jobs /\ ~once.error /\ ~twice.error)
    /\ [][\A u \in Users : CleanupFires(u) =>
            /\ cleanup_log'.errors = cleanup_log.errors
            /\ batch_jobs' = [batch_jobs EXCEPT ![u] = 0]
            /\ batch_jobs[u] = 0 =>
                  UNCHANGED <<batch_jobs, heap, processing_queue, handlers, procs,
                              nextFile, nextTicket, attempts, returned, owner,
                              lastDeq>>]_vars

\* _cleanup_batch has run at least twice, at least once for a submitter
\* without an entry, and no call has logged an exception
C14_Witness ==
    /\ cleanup_log.fired >= 2
    /\ cleanup_log.absent >= 1
    /\ cleanup_log.errors = 0

\* number of pending debounce timers armed for BatchJob b, in task list ts
TimersOf(ts, b) ==
    Cardinality({k \in 1..Len(ts) : ts[k].kind = "timer" /\ ts[k].inst = b})

\* C15: while the call that created a batch is suspended in send_message,
\* a second call of the same submitter finds that batch, appends its file
\* behind the first, returns True, creates no batch and arms no timer; and
\* when the first call resumes it arms the one timer of that batch.
C15_OverlappingCallsOneBatch ==
    [][\A h \in handlers :
          /\ (Adds(h.user_id) /\ heap[h.job].files = <<h.file>>) =>
                /\ batch_jobs[h.user_id] = h.job
                /\ batch_jobs'[h.user_id] = h.job
                /\ heap'[h.job].files = <<h.file, nextFile>>
                /\ heap'[nextFile] = NoJob
                /\ returned'[nextFile] = "true"
                /\ handlers' = handlers
                /\ tasks' = tasks
          /\ h \notin handlers' =>
                /\ TimersOf(tasks, h.job) = 0
                /\ TimersOf(tasks', h.job) = 1]_vars

\* the second call has appended its file and returned True while the call
\* that created the batch is still suspended in send_message
C15_Witness ==
    \E h \in handlers : \E f \in Files :
        /\ batch_jobs[h.user_id] = h.job
        /\ heap[h.job].files = <<h.file, f>>
        /\ returned[h.file] = "pending"
        /\ returned[f] = "true"
        /\ TimersOf(tasks, h.job) = 0

\* the pending debounce timers of submitter u
PendingTimers(u) ==
    {k \in 1..Len(tasks) : tasks[k].kind = "timer" /\ tasks[k].user_id = u}

\* C16: no submitter ever has more than one pending debounce timer, and an
\* add_file_to_batch call that appends its file to an existing batch leaves
\* the pending tasks as they were.
C16_OneTimerPerSubmitter ==
    /\ [](\A u \in Users : Cardinality(PendingTimers(u)) <= 1)
    /\ [][\A u \in Users :
            (/\ Adds(u)
             /\ batch_jobs[u] # 0
             /\ Len(heap'[batch_jobs[u]].files) = Len(Job(u).files) + 1)
            => tasks' = tasks]_vars

\* a batch that has been appended to up to max_batch_size files, all calls
\* returned, with its single timer pending
C16_Witness ==
    \E u \in Users :
        /\ batch_jobs[u] # 0
        /\ Len(Job(u).files) = max_batch_size
        /\ \A k \in 1..Len(Job(u).files) : returned[Job(u).files[k]] = "true"
        /\ Cardinality(PendingTimers(u)) = 1

\* C17: a _process_batch call that has caught an exception of the driver has
\* sent the failure status as its last edit, and no batch whose processing
\* has ended is left in batch_jobs with completed = False.
C17_FailedBatchStillCompleted ==
    /\ \A p \in procs : p.pc = "failed" => p.log[Len(p.log)] = "failed"
    /\ \A u \in Users :
          (/\ batch_jobs[u] # 0
           /\ Job(u).passes >= 1
           /\ \A p \in procs : p.job # batch_jobs[u])
          => Job(u).completed

\* the sleep of the debounce timer tasks[i] is over in this step
TimerFires(i) ==
    /\ tasks[i].kind = "timer"
    /\ tasks' = RemoveAt(tasks, i)
    /\ heap'[tasks[i].inst].expired

\* u has a batch that is not completed
HasLiveBatch(u) == batch_jobs[u] # 0 /\ ~Job(u).completed

C19_FrozenAtDispatch ==
    [][\A b \in Files : heap[b].passes >= 1 => heap'[b].files = heap[b].files]_vars

\* C20: every pending cleanup was scheduled by the completion of the batch
\* that is its submitter's entry, and that batch is completed; an entry
\* leaves batch_jobs only in the step in which the cleanup scheduled by its
\* own completion runs.
C20_CleanupRemovesOwnCompletedBatch ==
    /\ [](\A i \in 1..Len(tasks) : tasks[i].kind = "cleanup" =>
            /\ batch_jobs[tasks[i].user_id] = tasks[i].inst
            /\ heap[tasks[i].inst].completed)
    /\ [][\A u \in Users : (batch_jobs[u] # 0 /\ batch_jobs'[u] = 0) =>
            /\ OwnCleanupFires(u)
            /\ Job(u).completed]_vars

\* a submitter whose earlier batch was completed and evicted has a newer
\* batch that is not completed
C20_Witness ==
    \E u \in Users : \E b \in Files :
        /\ batch_jobs[u] # 0
        /\ b # batch_jobs[u]
        /\ heap[b].user_id = u
        /\ heap[b].completed
        /\ ~Job(u).completed
        /\ cleanup_log.fired >= 1

\* the file names of FileNames that end in ".svg" when case is ignored
SvgNames == { <<"a", ".", "s", "v", "g">>, <<"A", ".", "S", "v", "G">> }

\* the update the last handle_svg_document call was made for fails one of
\* the checks: banned submitter, no document, wrong extension, too large
FailsAdmission(up) ==
    \/ up.banned
    \/ ~up.document
    \/ up.file_name \notin SvgNames
    \/ up.file_size > max_file_size

\* C21: a handle_svg_document call for an update that fails a check leaves
\* batch_jobs, the BatchJob objects, processing_queue and the pending tasks
\* as they were.
C21_RejectedUploadNoBatchEffect ==
    [][(admission' # admission /\ FailsAdmission(admission'.upload)) =>
          /\ admission'.result \in {"banned", "no_document", "wrong_extension", "too_large"}
          /\ UNCHANGED <<batch_jobs, heap, processing_queue, tasks, handlers, nextFile>>]_vars

\* a too large file was rejected while its submitter had a batch with a
\* pending timer
C21_Witness ==
    /\ admission.result = "too_large"
    /\ batch_jobs[admission.user_id] # 0
    /\ \E k \in 1..Len(tasks) :
          tasks[k].kind = "timer" /\ tasks[k].user_id = admission.user_id

\* C22: for an update with a document of a submitter who is not banned:
\* a wrong extension is rejected as such whatever the size; with the right
\* extension the file is rejected as too large exactly when its size exceeds
\* max_file_size; a file of exactly max_file_size bytes passes the checks.
C22_ExtensionThenSize ==
    LET up == admission.upload
        r == admission.result
    IN  (r # "none" /\ ~up.banned /\ up.document) =>
          /\ up.file_name \notin SvgNames => r = "wrong_extension"
          /\ up.file_name \in SvgNames =>
                /\ r = "too_large" <=> up.file_size > max_file_size
                /\ up.file_size <= max_file_size => r \in {"admitted", "download_failed"}

\* a file with a wrong extension that is also too large was rejected for its
\* extension
C22_Witness ==
    /\ admission.result = "wrong_extension"
    /\ admission.upload.file_size > max_file_size
    /\ ~admission.upload.banned

\* the signal s leaves processing_queue in this step
Taken(s) ==
    /\ \E k \in 1..Len(processing_queue) : processing_queue[k] = s
    /\ \A k \in 1..Len(processing_queue') : processing_queue'[k].ticket # s.ticket

\* this step makes no edit of a status message of a batch of submitter u and
\* attempts none of u's files
Untouched(u) ==
    /\ \A b \in Files : heap[b].user_id = u => StatusLog(b)' = StatusLog(b)
    /\ \A f \in Files : owner[f] = u => attempts'[f] = attempts[f]
    /\ \A p \in procs' : p.user_id = u => p \in procs

\* the worker did not stop at the signal s it dropped: it started a batch on
\* a later signal, or it took every signal that was in the queue
WentOn(s) ==
    \/ lastDeq'.result = "started" /\ lastDeq'.ticket > s.ticket
    \/ \A k \in 1..Len(processing_queue) : Taken(processing_queue[k])

\* C23: a signal dequeued while its submitter has no entry in batch_jobs is
\* dropped: batch_jobs stays as it was, no status message of the submitter
\* is edited, none of the submitter's files is attempted, no _process_batch
\* call for the submitter is running afterwards, and the worker goes on to
\* the next signal.
C23_AbsentSignalDropped ==
    [][\A k \in 1..Len(processing_queue) :
          LET s == processing_queue[k] IN
          (Taken(s) /\ batch_jobs[s.user_id] = 0) =>
              /\ batch_jobs' = batch_jobs
              /\ Untouched(s.user_id)
              /\ WentOn(s)]_vars

\* the last signal the worker dequeued was for a submitter without an entry
C23_Witness ==
    /\ lastDeq.result = "absent"
    /\ batch_jobs[lastDeq.user_id] = 0
    /\ procs = {}

\* number of pending cleanups scheduled by completions of BatchJob b, in ts
CleanupsOf(ts, b) ==
    Cardinality({k \in 1..Len(ts) : ts[k].kind = "cleanup" /\ ts[k].inst = b})

\* C24: a signal dequeued while its submitter's batch is completed changes
\* nothing: the batch keeps its files and its status message and stays
\* completed (a batch that was completed before the step is the same record
\* after it), no status message of the submitter is edited, none of the
\* submitter's files is attempted, and the batch still has the one cleanup
\* its completion scheduled.
C24_RedundantSignalHarmless ==
    [][\A k \in 1..Len(processing_queue) :
          LET s == processing_queue[k]
              b == batch_jobs[s.user_id]
          IN  (Taken(s) /\ b # 0 /\ heap'[b].completed) =>
                  /\ batch_jobs' = batch_jobs
                  /\ heap'[b].files = heap[b].files
                  /\ heap'[b].status_message_id = heap[b].status_message_id
                  /\ heap[b].completed =>
                         /\ heap'[b] = heap[b]
                         /\ CleanupsOf(tasks', b) = CleanupsOf(tasks, b)
                  /\ Untouched(s.user_id)
                  /\ heap'[b].cleanups = 1
                  /\ CleanupsOf(tasks', b) <= 1]_vars

\* the last signal the worker dequeued was for a batch that is completed
C24_Witness ==
    /\ lastDeq.result = "completed"
    /\ procs = {}
    /\ batch_jobs[lastDeq.user_id] # 0
    /\ Job(lastDeq.user_id).completed
    /\ Job(lastDeq.user_id).passes = 1

\* C25: the completed flag of a BatchJob never goes back from true to false
\* (so it is set at most once), and a step sets it only as the last act of a
\* _process_batch pass over that BatchJob, after its final status update.
C25_CompletedSetOnceByWorker ==
    [][\A b \in Files :
          /\ heap[b].completed => heap'[b].completed
          /\ (~heap[b].completed /\ heap'[b].completed) =>
                 \E p \in procs : /\ p.job = b
                                  /\ p.pc = "final"
                                  /\ p \notin procs']_vars

\* a completed batch has taken a further file since and is still completed
C25_Witness ==
    \E b \in Files :
        /\ heap[b].completed
        /\ \E k \in 1..Len(heap[b].files) : attempts[heap[b].files[k]] = 0

\* the files of BatchJob b that the worker has taken up
AttemptedOf(b) ==
    {k \in 1..Len(heap[b].files) : attempts[heap[b].files[k]] >= 1}

\* where a _process_batch call p stands in the order of lines 149-242
InOrder(p) ==
    /\ p.log # <<>>
    /\ p.log[1] = "start"
    /\ p.pc = "announce" => p.log = <<"start">> /\ AttemptedOf(p.job) = {}
    /\ p.pc \in {"file", "pace"} => p.log = <<"start">>
    /\ p.pc = "final" => /\ p.log = <<"start", "final">>
                         /\ AttemptedOf(p.job) = 1..p.n
    /\ ~heap[p.job].completed
    /\ heap[p.job].cleanups = 0

\* C26: for each batch the worker processes, the events come in the order
\* starting update, per-file attempts, final update, completed = True, cleanup
\* scheduled: a call waiting on its starting update has attempted no file, a
\* file is attempted only by a call that has made its starting update and not
\* yet its final one, a call at its final update has attempted every file its
\* loop saw and the batch is not yet completed and has no cleanup, and a batch
\* is completed exactly when its cleanup has been scheduled, after both updates.
C26_WorkerEventOrder ==
    /\ [](\A p \in procs : InOrder(p))
    /\ [](\A b \in Files :
            /\ heap[b].completed <=> heap[b].cleanups >= 1
            /\ heap[b].completed => heap[b].log = <<"start", "final">>)
    /\ [][\A f \in Files :
            attempts'[f] # attempts[f] =>
                \E p \in procs :
                    /\ p.pc \in {"announce", "file", "pace"}
                    /\ p.log = <<"start">>
                    /\ \E k \in 1..Len(heap[p.job].files) : heap[p.job].files[k] = f]_vars

\* a batch of two files has gone through all five events
C26_Witness ==
    \E b \in Files :
        /\ heap[b].completed
        /\ heap[b].log = <<"start", "final">>
        /\ Len(heap[b].files) = 2
        /\ AttemptedOf(b) = {1, 2}
        /\ CleanupsOf(tasks, b) = 1

\* C27: within a batch the files are attempted in the order in which they
\* were added: the files list is in arrival order, the files attempted so far
\* are always the first ones of the list, each attempted once, and the file a
\* step attempts is the one right after those already attempted.
C27_AttemptedInArrivalOrder ==
    /\ [](\A b \in Files :
            \A k \in 1..Len(heap[b].files) :
                /\ attempts[heap[b].files[k]] <= 1
                /\ k > 1 => heap[b].files[k - 1] < heap[b].files[k]
                /\ (k > 1 /\ k \in AttemptedOf(b)) => (k - 1) \in AttemptedOf(b))
    /\ [][\A b \in Files :
            \A k \in 1..Len(heap[b].files) :
                attempts'[heap[b].files[k]] # attempts[heap[b].files[k]] =>
                    AttemptedOf(b) = 1..(k - 1)]_vars

\* the first of two files has been attempted, the second not yet
C27_Witness ==
    \E p \in procs :
        /\ p.pc = "pace"
        /\ Len(heap[p.job].files) = 2
        /\ AttemptedOf(p.job) = {1}

\* C28: a file the validator rejected is never passed to the converter and
\* is recorded exactly once, as failed; a file is recorded as a success only
\* if its conversion succeeded and the converted file was delivered, and then
\* that is its only record.
C28_PerFileOutcomeRecorded ==
    \A f \in Files :
        LET e == file_log[f] IN
        /\ e.verdict = "invalid" => e.converted = 0 /\ e.records = <<FALSE>>
        /\ (\E k \in 1..Len(e.records) : e.records[k]) =>
               /\ e.converter = "ok"
               /\ e.delivered = 1
               /\ e.records = <<TRUE>>

\* one batch holds a file the validator rejected and a file that was
\* converted and delivered, and its loop is over
C28_Witness ==
    \E p \in procs :
        /\ p.pc = "final"
        /\ \E j, k \in 1..Len(heap[p.job].files) :
              /\ file_log[heap[p.job].files[j]].verdict = "invalid"
              /\ file_log[heap[p.job].files[k]].records = <<TRUE>>

\* the files of BatchJob b whose pass through the loop body is over, and
\* those of them that were converted, delivered and recorded as a success
DoneOf(b) ==
    {k \in 1..Len(heap[b].files) : file_log[heap[b].files[k]].verdict # "none"}

SucceededOf(b) ==
    {k \in DoneOf(b) : file_log[heap[b].files[k]].records = <<TRUE>>}

\* C29: the two counters of a _process_batch call count each file the loop
\* has dealt with exactly once, the successes in successful_conversions and
\* every other file, one whose processing raised included, in
\* failed_conversions; when the final status is composed their sum is the
\* number of files attempted.
C29_TallyCoversEveryFile ==
    \A p \in procs :
        /\ p.successful_conversions = Cardinality(SucceededOf(p.job))
        /\ p.failed_conversions = Cardinality(DoneOf(p.job) \ SucceededOf(p.job))
        /\ p.pc = "final" =>
              /\ DoneOf(p.job) = AttemptedOf(p.job)
              /\ Processed(p) = Cardinality(AttemptedOf(p.job))
              /\ Processed(p) = p.n

\* the final status is being sent for a batch of two files, one of which
\* raised in the loop body
C29_Witness ==
    \E p \in procs :
        /\ p.pc = "final"
        /\ p.n = 2
        /\ p.successful_conversions = 1
        /\ p.failed_conversions = 1
        /\ \E k \in 1..2 :
              file_log[heap[p.job].files[k]].records = <<>>

\* the three parts of C30 for a status text t composed from a tally of s
\* successes and f failures
TextFitsTally(t, s, f) ==
    /\ t.kind \in {"done", "nothing_converted"}
    /\ t.kind = "done" <=> s > 0
    /\ t.counts # <<>> <=> (s > 0 /\ f > 0)
    /\ t.counts # <<>> => t.counts = <<s, f>>
    /\ t.kind = "nothing_converted" <=> s = 0

\* C30: the final status a _process_batch call sends is the success summary
\* exactly when at least one file succeeded, carries the counts exactly when
\* in addition at least one file failed, and is the nothing-converted message
\* exactly when no file succeeded; the text composed from any tally, the
\* empty one included, follows the same rule.
C30_FinalStatusText ==
    /\ \A p \in procs :
          IF p.pc = "final"
          THEN TextFitsTally(p.status_text, p.successful_conversions,
                             p.failed_conversions)
          ELSE p.status_text = NoStatus
    /\ \A s \in 0..MaxFiles, f \in 0..MaxFiles :
          TextFitsTally(FinalStatus(s, f), s, f)

\* a final status with the counts line is being sent
C30_Witness ==
    \E p \in procs :
        /\ p.pc = "final"
        /\ p.successful_conversions = 1
        /\ p.failed_conversions = 1
        /\ p.status_text = [kind |-> "done", counts |-> <<1, 1>>]

\* the pass of _process_batch over BatchJob b is over
PassOver(b) ==
    /\ heap[b].passes >= 1
    /\ \A p \in procs : p.job # b

\* C31: a batch whose pass had a failing starting edit, error notification or
\* final edit ends like any other: once the pass is over, every file of the
\* batch has been attempted, the batch is completed and its cleanup is
\* scheduled.
C31_TransportFailureNeverAborts ==
    \A b \in Files :
        (transport[b] # {} /\ PassOver(b)) =>
            /\ AttemptedOf(b) = 1..Len(heap[b].files)
            /\ heap[b].completed
            /\ heap[b].cleanups = 1

\* the part of C31 that is about the failure alone: the pass ends with the
\* batch completed, its cleanup scheduled and every file the loop found in
\* the batch attempted
C31_FailureChangesNothing ==
    \A b \in Files :
        (transport[b] # {} /\ PassOver(b)) =>
            /\ AttemptedOf(b) # {}
            /\ \A k \in 1..Len(heap[b].files) :
                  k \notin AttemptedOf(b) => AttemptedOf(b) = 1..(k - 1)
            /\ heap[b].completed
            /\ heap[b].cleanups = 1
            /\ CleanupsOf(tasks, b) = 1

\* C32: when the send_message of the call that creates a batch fails, the
\* call still ends as it does otherwise: in the step in which it resumes, the
\* batch is the submitter's entry and holds the first file, one debounce timer
\* is armed for it, the call returns True, and whenever a batch's
\* status_message_id was not replaced it is the message id of the upload that
\* created the batch.
C32_SendFailureKeepsBatch ==
    /\ [](\A b \in Files :
            heap[b].status_message_id.kind = "upload" =>
                heap[b].status_message_id.id = heap[b].files[1])
    /\ [][\A h \in handlers :
            (h \notin handlers' /\ heap'[h.job].status_message_id.kind = "upload") =>
                /\ batch_jobs'[h.user_id] = h.job
                /\ heap'[h.job].files[1] = h.file
                /\ heap'[h.job].status_message_id = [kind |-> "upload", id |-> h.file]
                /\ TimersOf(tasks', h.job) = TimersOf(tasks, h.job) + 1
                /\ returned[h.file] = "pending"
                /\ returned'[h.file] = "true"]_vars

\* a creating call whose send_message failed has returned True and its
\* batch's timer is pending
C32_Witness ==
    \E b \in Files :
        /\ heap[b].user_id # 0
        /\ batch_jobs[heap[b].user_id] = b
        /\ heap[b].status_message_id = [kind |-> "upload", id |-> b]
        /\ returned[b] = "true"
        /\ TimersOf(tasks, b) = 1

\* BatchJob b has been created; it has been completed and is no longer the
\* entry of its submitter
Created(b) == heap[b].user_id # 0

Evicted(b) ==
    /\ heap[b].completed
    /\ batch_jobs[heap[b].user_id] # b

\* the dispatch signal with enqueue number t is on processing_queue
Queued(t) == \E k \in 1..Len(processing_queue) : processing_queue[k].ticket = t

\* C33: with the worker running, the sleeps ending and every awaited call
\* returning, every batch that is created is eventually completed and then
\* evicted from batch_jobs, and every dispatch signal that is put on
\* processing_queue is eventually taken off it.
C33_NoLeaks ==
    /\ \A b \in Files : Created(b) ~> heap[b].completed
    /\ \A b \in Files : Created(b) ~> Evicted(b)
    /\ \A t \in 1..MaxFiles : Queued(t) ~> ~Queued(t)

\* a batch has been completed and evicted, two signals have been put and the
\* queue is empty again
C33_Witness ==
    /\ \E b \in Files : Created(b) /\ Evicted(b)
    /\ nextTicket > 2
    /\ processing_queue = <<>>

\* C34: the status_message_id of a BatchJob changes only in the step in which
\* the add_file_to_batch call that created it resumes from send_message, and
\* there from the upload's message id to the id of the status message that
\* was sent; as the creating call resumes once, it changes at most once.
C34_StatusHandleReplacedOnce ==
    [][\A b \in Files :
          (Created(b) /\ heap'[b].status_message_id # heap[b].status_message_id) =>
              /\ \E h \in handlers : h.job = b /\ h.file = b /\ h \notin handlers'
              /\ heap[b].status_message_id = [kind |-> "upload", id |-> b]
              /\ heap'[b].status_message_id = [kind |-> "status", id |-> b]]_vars

\* a batch whose status_message_id was replaced has since taken a second
\* file, been processed and completed
C34_Witness ==
    \E b \in Files :
        /\ heap[b].completed
        /\ Len(heap[b].files) = 2
        /\ heap[b].status_message_id = [kind |-> "status", id |-> b]

\* what batch_jobs holds for submitter u: the entry, and the entry's files,
\* status handle and completed flag
BatchData(u) ==
    IF batch_jobs[u] = 0
    THEN [job |-> 0, files |-> <<>>, status_message_id |-> NoJob.status_message_id,
          completed |-> FALSE]
    ELSE [job |-> batch_jobs[u], files |-> Job(u).files,
          status_message_id |-> Job(u).status_message_id,
          completed |-> Job(u).completed]

\* the submitters on whose behalf a step runs code: the user_id of the
\* add_file_to_batch call that starts or resumes, of the _process_batch call
\* that is resumed, and of the timer or cleanup whose sleep ends
Actors ==
    {owner'[f] : f \in {g \in Files : g = nextFile /\ nextFile' # nextFile}}
    \cup {h.user_id : h \in handlers \ handlers'}
    \cup {p.user_id : p \in procs \ procs'}
    \cup {tasks[i].user_id : i \in {j \in 1..Len(tasks) : tasks' = RemoveAt(tasks, j)}}

\* C35: a step of add_file_to_batch, of a timer, of _process_batch or of
\* _cleanup_batch for one submitter changes no other submitter's entry in
\* batch_jobs, nor the files, status handle or completed flag of its batch.
C35_OtherSubmittersUntouched ==
    [][/\ Cardinality(Actors) <= 1
       /\ \A u \in Users : BatchData(u)' # BatchData(u) => u \in Actors]_vars

\* two submitters have batches, and the first one's has been completed while
\* the second one's has not
C35_Witness ==
    /\ \A u \in Users : batch_jobs[u] # 0
    /\ Job(1).completed
    /\ \E u \in Users : ~Job(u).completed /\ Len(Job(u).files) = 2

\* the BatchJob objects whose files list holds upload f
StoredIn(f) ==
    {b \in Files : \E k \in 1..Len(heap[b].files) : heap[b].files[k] = f}

\* C36: add_file_to_batch returns True exactly for the files it stored: a
\* file whose call returned True (or has stored it and not yet returned) is
\* in one batch, a batch of its submitter; a file whose call returned False
\* is in no batch.  A call returns False exactly when it finds the
\* submitter's batch holding max_batch_size files or more, and it then puts
\* one dispatch signal for the submitter on the queue.
C36_ReturnsTrueIffStored ==
    /\ [](\A f \in Files :
            /\ returned[f] \in {"true", "pending"} =>
                  \E b \in Files : StoredIn(f) = {b} /\ heap[b].user_id = owner[f]
            /\ returned[f] \in {"false", "none"} => StoredIn(f) = {})
    /\ [][\A f \in Files :
            (returned[f] = "none" /\ returned'[f] # "none") =>
               LET u == owner'[f]
                   full == batch_jobs[u] # 0 /\ Len(Job(u).files) >= max_batch_size
               IN  /\ returned'[f] = "false" <=> full
                   /\ full =>
                        /\ heap' = heap
                        /\ processing_queue' =
                              Append(processing_queue, DispatchSignal(u, batch_jobs[u], "full"))]_vars

\* a call has returned False and its signal is on the queue
C36_Witness ==
    \E f \in Files :
        /\ returned[f] = "false"
        /\ StoredIn(f) = {}
        /\ \E k \in 1..Len(processing_queue) :
              /\ processing_queue[k].src = "full"
              /\ processing_queue[k].user_id = owner[f]

\* the pending _cleanup_batch tasks of submitter u
PendingCleanups(u) ==
    Cardinality({k \in 1..Len(tasks) : tasks[k].kind = "cleanup" /\ tasks[k].user_id = u})

\* C37: a batch has had one retention cleanup scheduled if it is completed
\* and none if it is not, the pending cleanups of a batch are among those its
\* completion scheduled, and no submitter ever has more than one pending
\* cleanup.
C37_OneCleanupPerCompletion ==
    /\ \A b \in Files :
          /\ heap[b].cleanups = IF heap[b].completed THEN 1 ELSE 0
          /\ CleanupsOf(tasks, b) <= heap[b].cleanups
    /\ \A u \in Users : PendingCleanups(u) <= 1

\* a submitter's second batch is completed and its cleanup is pending, the
\* first one having been evicted by its own
C37_Witness ==
    \E u \in Users :
        /\ batch_jobs[u] # 0
        /\ Job(u).completed
        /\ PendingCleanups(u) = 1
        /\ CleanupsOf(tasks, batch_jobs[u]) = 1
        /\ \E b \in Files : b # batch_jobs[u] /\ heap[b].user_id = u /\ Evicted(b)

\* the number of signals the worker has dequeued since stop_processing was
\* first called
HandledSinceStop == Handled - worker.mark

\* C38: once stop_processing has been called, the worker handles at most one
\* more dequeued signal.  If it was in the middle of a batch, it handles none
\* and exits when that batch is completed; if it was waiting in get(), it
\* still handles the next signal, finishing the batch if the signal starts
\* one, and exits after that.
C38_StopAfterOneSignal ==
    worker.stopped =>
        /\ ~worker.is_processing
        /\ HandledSinceStop <= 1
        /\ worker.job # 0 => HandledSinceStop = 0
        /\ worker.exited <=>
              /\ procs = {}
              /\ IF worker.job # 0
                 THEN heap[worker.job].completed
                 ELSE HandledSinceStop = 1
        /\ worker.exited =>
              \A b \in Files : heap[b].passes >= 1 => heap[b].completed

\* the worker was waiting in get() when it was stopped, has taken the next
\* signal, processed its batch and left the loop, and a later signal stays
\* on the queue
C38_Witness ==
    /\ worker.exited
    /\ worker.job = 0
    /\ HandledSinceStop = 1
    /\ lastDeq.result = "started"
    /\ lastDeq.ticket = worker.mark + 1
    /\ \E b \in Files : heap[b].passes >= 1 /\ heap[b].completed
    /\ processing_queue # <<>>

====
